---- MODULE Spec2Model ----
(***************************************************************************)
(* The e-reader front-end controller of El-Wumbus/epub-reader.  The        *)
(* repository holds four versions of the controller script; the variable   *)
(* variant says which one is loaded in the page:                           *)
(*   "index"  src/src/index.js          arrow keys, sets frame.src         *)
(*   "cookie" src/src/reader.js         arrow keys, font size in a cookie  *)
(*   "api"    src/unnamed/part_000      keybinds over /api endpoints       *)
(*   "full"   src/reader/src/reader.js  the same with quit and keepalive   *)
(* Every handler is one action: it runs from the event to its first await. *)
(* The rest of an async function is the continuation run by Arrive when    *)
(* the fetch settles.  Text the code takes apart (cookies, hrefs) is a     *)
(* sequence of one-character strings; text it only forwards is a string.   *)
(***************************************************************************)
EXTENDS Integers, Sequences, FiniteSets, TLC

(* ------------------------------ bounds -------------------------------- *)
\* keydown events and button clicks handled by one page
MaxEvents == 2
\* HTTP requests issued by one page
MaxRequests == 2
\* links in one frame document
MaxLinks == 1
\* frame load events on one page
MaxFrameLoads == 2
\* the clock advances in steps of KEEPALIVE_PERIOD \div TicksPerPeriod
TicksPerPeriod == 2
\* the clock stops after this many periods
MaxPeriods == 2

(* ----------------------------- constants ------------------------------ *)
API ==
  [QUIT |-> "/api/quit", KEEPALIVE |-> "/api/keepalive", PAGE |-> "/api/page",
   FONT_SIZE |-> "/api/font-size",
   INVERT_TEXT_COLOR |-> "/api/invert-text-color",
   CONTENT_WIDTH |-> "/api/content-width"]
PREV_PAGE == "/prev-page"
NEXT_PAGE == "/next-page"
KEEPALIVE_PERIOD == 30000
DEFAULT_FONT_SIZE == 16
FONT_STEP == 2
MIN_FONT_SIZE == 1
COOKIE_NAME == <<"c","o","n","t","e","n","t","_","f","o","n","t","_","s","i","z","e">>
MARKER == <<"c","o","n","t","e","n","t","/">>
TOP == "_top"
ORIGIN == "http://host"
START_LOCATION == "http://host/1"

Variants == {"index", "cookie", "api", "full"}
\* the keys of the richest keybind table, and two keys no version binds
TableKeys == {"ArrowLeft", "ArrowRight", "=", "-", "!", "[", "]", "q"}
OtherKeys == {"a", "Enter"}
Keys == TableKeys \cup OtherKeys
\* the element a keydown event is dispatched at: the host document (it
\* bubbles to window) or the frame element (frame listener, then window)
Targets == {"window", "frame"}
\* what the page endpoint answers, and what the user types in pageinput
Bodies == {"42", "7"}
PageInputs == {"5"}
Outcomes == {"ok", "status", "reject"}

VARIABLES
  variant,            \* which version of the script the page runs
  page,               \* "live", "unloaded" (navigated away) or "closed"
  ev,                 \* the last keydown event or click handled
  requests,           \* every fetch issued, in order, with its state
  prompts,            \* every confirm() shown, with the answer
  resp,               \* the last fetch settled: request, outcome, text
  location,           \* the value last assigned to location.href
  frame_src,          \* the value last assigned to frame.src
  reloads,            \* calls of location.reload()
  content_font_size,  \* src/src/reader.js:3
  jar,                \* the cookies of the document, in order
  frame_style_root,   \* src/src/reader.js:7, 0 is undefined
  style,              \* --content-font-size of each frame root element
  base,               \* content_font_size as the script start computed it
  fontKeys,           \* the '=' and '-' keys the cookie version handled
  links,              \* the links of the document loaded in the frame
  doc,                \* the same links as the server sent them
  window_loaded,      \* the load event of the window has fired
  loads,              \* frame load events so far
  now,                \* milliseconds since the page was opened
  timers,             \* due time of every interval timer
  success_logs,       \* console.log lines of the api functions, at most one each
  host_links          \* the links of the host document

vars ==
  <<variant, page, ev, requests, prompts, resp, location, frame_src, reloads,
    content_font_size, jar, frame_style_root, style, base, fontKeys, links,
    doc, window_loaded, loads, now, timers, success_logs, host_links>>


(* ------------------------- text and numbers --------------------------- *)
\* a JavaScript number: an integer or NaN
Num(n) == [nan |-> FALSE, v |-> n]
NaN == [nan |-> TRUE, v |-> 0]
\* the result of a lookup: a string or null
Null == [found |-> FALSE, s |-> <<>>]
Str(s) == [found |-> TRUE, s |-> s]
\* JavaScript truthiness of a string-or-null: null and "" are falsy
Truthy(r) == r.found /\ r.s # <<>>

DIGITS == <<"0", "1", "2", "3", "4", "5", "6", "7", "8", "9">>
IsDigit(c) == \E d \in 1..10 : DIGITS[d] = c
DigitVal(c) == (CHOOSE d \in 1..10 : DIGITS[d] = c) - 1

RECURSIVE NatStr(_)
NatStr(n) ==
  IF n < 10 THEN <<DIGITS[n + 1]>>
  ELSE NatStr(n \div 10) \o <<DIGITS[(n % 10) + 1]>>

\* String(sz), as the + of set_font_size converts the number
NumberToString(x) ==
  IF x.nan THEN <<"N", "a", "N">>
  ELSE IF x.v < 0 THEN <<"-">> \o NatStr(-x.v)
  ELSE NatStr(x.v)

RECURSIVE TrimStart(_)
TrimStart(s) ==
  IF s # <<>> /\ Head(s) = " " THEN TrimStart(Tail(s)) ELSE s

RECURSIVE TrimEnd(_)
TrimEnd(s) ==
  IF s # <<>> /\ s[Len(s)] = " " THEN TrimEnd(SubSeq(s, 1, Len(s) - 1)) ELSE s

Trim(s) == TrimEnd(TrimStart(s))

RECURSIVE ParseDigits(_, _)
ParseDigits(s, acc) ==
  IF s = <<>> \/ ~IsDigit(Head(s)) THEN acc
  ELSE ParseDigits(Tail(s), acc * 10 + DigitVal(Head(s)))

\* parseInt(s) in radix 10: leading blanks, a sign, the leading digits;
\* NaN when no digit follows
parseInt(s) ==
  LET t == TrimStart(s)
      signed == t # <<>> /\ Head(t) \in {"+", "-"}
      u == IF signed THEN Tail(t) ELSE t
      n == ParseDigits(u, 0)
  IN  IF u = <<>> \/ ~IsDigit(Head(u)) THEN NaN
      ELSE IF signed /\ Head(t) = "-" THEN Num(-n) ELSE Num(n)

\* s.indexOf(m): the 0-based place of the first occurrence, -1 when none
IndexOf(s, m) ==
  LET at == {i \in 1..(Len(s) - Len(m) + 1) : SubSeq(s, i, i + Len(m) - 1) = m}
  IN  IF at = {} THEN -1 ELSE (CHOOSE i \in at : \A j \in at : i <= j) - 1

Includes(s, m) == IndexOf(s, m) >= 0

\* s.replaceAll(m, r): every occurrence, left to right
RECURSIVE ReplaceEvery(_, _, _)
ReplaceEvery(s, m, r) ==
  LET at == {i \in 1..(Len(s) - Len(m) + 1) : SubSeq(s, i, i + Len(m) - 1) = m}
      i == CHOOSE k \in at : \A j \in at : k <= j
  IN  IF at = {} THEN s
      ELSE SubSeq(s, 1, i - 1) \o r
           \o ReplaceEvery(SubSeq(s, i + Len(m), Len(s)), m, r)

\* s.replace(m, r) with a string pattern: the first occurrence only
ReplaceFirst(s, m, r) ==
  LET i == IndexOf(s, m)
  IN  IF i < 0 THEN s
      ELSE SubSeq(s, 1, i) \o r \o SubSeq(s, i + Len(m) + 1, Len(s))

\* s.split(c) for a one-character separator
RECURSIVE Split(_, _)
Split(s, c) ==
  LET i == IndexOf(s, <<c>>)
  IN  IF i < 0 THEN <<s>>
      ELSE <<SubSeq(s, 1, i)>> \o Split(SubSeq(s, i + 2, Len(s)), c)

(* ------------------------------ cookies ------------------------------- *)
\* the document.cookie getter: name=value pairs joined by "; "
RECURSIVE CookieString(_)
CookieString(j) ==
  IF j = <<>> THEN <<>>
  ELSE LET one == j[1].name \o <<"=">> \o j[1].value
       IN  IF Len(j) = 1 THEN one
           ELSE one \o <<";", " ">> \o CookieString(Tail(j))

\* the document.cookie setter for "name=value": the cookie of that name is
\* replaced where it stands, a new one is appended
SetCookie(j, text) ==
  LET i == IndexOf(text, <<"=">>)
      c == [name |-> SubSeq(text, 1, i), value |-> SubSeq(text, i + 2, Len(text))]
      at == {k \in 1..Len(j) : j[k].name = c.name}
  IN  IF at = {} THEN Append(j, c)
      ELSE [k \in 1..Len(j) |-> IF k \in at THEN c ELSE j[k]]

RECURSIVE FirstCookie(_, _)
FirstCookie(parts, look_for) ==
  IF parts = <<>> THEN Null
  ELSE LET cookie == Trim(Head(parts))
       IN  IF IndexOf(cookie, look_for) = 0
           THEN Str(SubSeq(cookie, Len(look_for) + 1, Len(cookie)))
           ELSE FirstCookie(Tail(parts), look_for)

\* decodeURIComponent is the identity on the text used here (no '%')
get_cookie(cookies, name) == FirstCookie(Split(cookies, ";"), name \o <<"=">>)

\* the font size the script computes from the cookies (lines 1-3, 23-27)
FontSizeCookie(j) == get_cookie(CookieString(j), COOKIE_NAME)

(* ----------------------------- listeners ------------------------------ *)
\* JavaScript arithmetic on a number that may be NaN
Plus(x, n) == IF x.nan THEN NaN ELSE Num(x.v + n)
Greater(x, n) == ~x.nan /\ x.v > n

\* What a listener works on: the part of the state a keydown or click
\* handler can change before it returns or suspends.
Work ==
  [requests |-> requests, prompts |-> prompts, pd |-> FALSE, thrown |-> FALSE,
   size |-> content_font_size, jar |-> jar, style |-> style,
   fontKeys |-> fontKeys]

\* fetch(url, {method: "POST", body}) called by the handler of event e; then
\* names the continuation that runs when it settles
Fetch(s, e, via, url, body, then, prompt) ==
  [s EXCEPT !.requests =
     Append(@, [ev |-> e.n, op |-> e.key, url |-> url, body |-> body, then |-> then,
                st |-> "pending",
                text |-> "", prompt |-> prompt, at |-> now])]

api_quit(s, e, via, prompt) == Fetch(s, e, via, API.QUIT, "", "close", prompt)
\* a keepalive whose caller reloads the page, as the preference keys do
api_keepalive_reloading(s, e, via) ==
  Fetch(s, e, via, API.KEEPALIVE, "", "reload", 0)

api_keepalive(s, e, via) == Fetch(s, e, via, API.KEEPALIVE, "", "none", 0)
api_page(s, e, via, action, then) == Fetch(s, e, via, API.PAGE, action, then, 0)
api_font_size(s, e, via, action) ==
  Fetch(s, e, via, API.FONT_SIZE, action, "reload", 0)
api_invert_text_color(s, e, via) ==
  Fetch(s, e, via, API.INVERT_TEXT_COLOR, "", "reload", 0)
api_content_width(s, e, via, action) ==
  Fetch(s, e, via, API.CONTENT_WIDTH, action, "reload", 0)

\* quit() that does not look at the answer
quit_unconfirmed(s, e, via, answer) ==
  LET asked == [s EXCEPT !.prompts =
                  Append(@, [via |-> via, answer |-> answer])]
  IN  api_quit(asked, e, via, Len(asked.prompts))

\* quit(): confirm(), and when confirmed api_quit(), whose continuation closes
quit(s, e, via, answer) ==
  LET asked == [s EXCEPT !.prompts =
                  Append(@, [via |-> via, answer |-> answer])]
  IN  IF answer THEN api_quit(asked, e, via, Len(asked.prompts)) ELSE asked

\* keybinds(key) up to its first await; with_quit is FALSE for part_000,
\* whose switch has no "q" case
keybinds(s, e, via, answer, with_quit) ==
  CASE e.key = "ArrowLeft" -> api_page(s, e, via, "-", "href")
    [] e.key = "ArrowRight" -> api_page(s, e, via, "+", "href")
    [] e.key = "=" -> api_font_size(s, e, via, "+")
    [] e.key = "-" -> api_font_size(s, e, via, "-")
    [] e.key = "!" -> api_invert_text_color(s, e, via)
    [] e.key = "[" -> api_content_width(s, e, via, "-")
    [] e.key = "]" -> api_content_width(s, e, via, "+")
    [] e.key = "q" /\ with_quit -> quit(s, e, via, answer)
    [] OTHER -> s

\* the window and frame keydown listeners of reader/src/reader.js and of
\* part_000: the same body
\* the listener without its guard on event.defaultPrevented
ApiListenerUnguarded(s, e, via, answer, with_quit) ==
  keybinds(s, e, via, answer, with_quit)

ApiListener(s, e, via, answer, with_quit) ==
  IF e.prevented THEN s ELSE keybinds(s, e, via, answer, with_quit)

\* set_font_size with its two statements swapped: the style first
set_font_size_style_first(s, sz) ==
  IF frame_style_root = 0 THEN [s EXCEPT !.thrown = TRUE]
  ELSE [s EXCEPT !.style = Str(NumberToString(sz) \o <<"p", "x">>),
                 !.jar = SetCookie(@, COOKIE_NAME \o <<"=">> \o NumberToString(sz))]

\* set_font_size(sz): the cookie is written first; the style of an
\* undefined frame_style_root then throws a TypeError
set_font_size(s, sz) ==
  LET written == [s EXCEPT !.jar =
                    SetCookie(@, COOKIE_NAME \o <<"=">> \o NumberToString(sz))]
  IN  IF frame_style_root = 0 THEN [written EXCEPT !.thrown = TRUE]
      ELSE [written EXCEPT !.style = Str(NumberToString(sz) \o <<"p", "x">>)]

\* the "=" case: content_font_size += 2
FontSizeAfterPlus(size) == Plus(size, FONT_STEP)

\* the "-" case without its test
FontSizeAfterMinusUnguarded(size) == Plus(size, -FONT_STEP)

\* the "-" case: two less, unless that would not stay above 1
FontSizeAfterMinus(size) ==
  IF Greater(Plus(size, -FONT_STEP), MIN_FONT_SIZE)
  THEN Plus(size, -FONT_STEP) ELSE size

\* the keydown listener of src/src/reader.js
CookieListener(s, e, via) ==
  IF e.prevented THEN s
  ELSE CASE e.key = "ArrowLeft" -> Fetch(s, e, via, PREV_PAGE, "", "href", 0)
         [] e.key = "ArrowRight" -> Fetch(s, e, via, NEXT_PAGE, "", "href", 0)
         [] e.key = "=" ->
              LET sz == FontSizeAfterPlus(s.size)
              IN  set_font_size([s EXCEPT !.size = sz,
                                          !.fontKeys = Append(@, "=")], sz)
         [] e.key = "-" ->
              LET sz == FontSizeAfterMinus(s.size)
              IN  set_font_size([s EXCEPT !.size = sz,
                                          !.fontKeys = Append(@, "-")], sz)
         [] OTHER -> s

\* index.js with preventDefault moved before the switch
IndexListenerPreventFirst(s, e, via) ==
  IF e.prevented THEN s
  ELSE CASE e.key = "ArrowLeft" ->
              [Fetch(s, e, via, PREV_PAGE, "", "src", 0) EXCEPT !.pd = TRUE]
         [] e.key = "ArrowRight" ->
              [Fetch(s, e, via, NEXT_PAGE, "", "src", 0) EXCEPT !.pd = TRUE]
         [] OTHER -> [s EXCEPT !.pd = TRUE]

\* the keydown listener of src/src/index.js: preventDefault after the switch
IndexListener(s, e, via) ==
  IF e.prevented THEN s
  ELSE CASE e.key = "ArrowLeft" ->
              [Fetch(s, e, via, PREV_PAGE, "", "src", 0) EXCEPT !.pd = TRUE]
         [] e.key = "ArrowRight" ->
              [Fetch(s, e, via, NEXT_PAGE, "", "src", 0) EXCEPT !.pd = TRUE]
         [] OTHER -> s

Listener(v, s, e, via, answer) ==
  CASE v = "index" -> IndexListener(s, e, via)
    [] v = "cookie" -> CookieListener(s, e, via)
    [] v = "api" -> ApiListener(s, e, via, answer, FALSE)
    [] v = "full" -> ApiListener(s, e, via, answer, TRUE)

\* The keydown listeners an event dispatched at target reaches, in order.
\* index.js and src/src/reader.js listen on window only; the two others
\* also on the frame element, whose events bubble on to window.
Listeners(v, target) ==
  IF v \in {"api", "full"} /\ target = "frame" THEN <<"frame", "window">>
  ELSE <<"window">>

RECURSIVE Dispatch(_, _, _, _, _)
Dispatch(v, s, e, path, answers) ==
  IF path = <<>> THEN s
  ELSE Dispatch(v, Listener(v, s, e, Head(path), Head(answers)), e,
                Tail(path), Tail(answers))

(* ------------------------------- state -------------------------------- *)
chars_16 == <<"1", "6">>
\* the cookies a page may start with: none, an unrelated one, and
\* content_font_size with a size, an empty value or text that is no number
Jars ==
  {<<>>, <<[name |-> <<"a">>, value |-> <<"b">>]>>}
  \cup {<<[name |-> COOKIE_NAME, value |-> val]>> :
          val \in {chars_16, <<"1">>, <<"2">>, <<"3">>, <<"7">>, <<"0">>,
                   <<"-", "3">>, <<"1", "2", "p", "x">>, <<"a", "b">>, <<>>}}
  \cup {<<[name |-> <<"a">>, value |-> <<"b">>],
          [name |-> COOKIE_NAME, value |-> <<"9">>]>>}

\* the links of the host page: it shows the frame and the page buttons
HOST_LINKS == <<[href |-> <<"/", "c", "o", "n", "t", "e", "n", "t", "/", "1">>, target |-> ""]>>

\* lines 1-3 of src/src/reader.js: the cookie's size, or 16 without one
InitialFontSize(j) ==
  LET cookie_content_font_size == FontSizeCookie(j)
  IN  IF Truthy(cookie_content_font_size)
      THEN parseInt(cookie_content_font_size.s) ELSE Num(DEFAULT_FONT_SIZE)

\* an event: its number, key (or button), target, defaultPrevented as it
\* arrives; then what handling it did: preventDefault called, an exception
\* thrown, and the requests and prompts it made (those after from and asked)
Event(n, key, target, prevented) ==
  [n |-> n, key |-> key, target |-> target, prevented |-> prevented,
   pd |-> FALSE, thrown |-> FALSE, from |-> Len(requests),
   asked |-> Len(prompts)]
NoEvent ==
  [n |-> 0, key |-> "", target |-> "window", prevented |-> FALSE,
   pd |-> FALSE, thrown |-> FALSE, from |-> 0, asked |-> 0]
NoResponse == [req |-> 0, outcome |-> "ok", text |-> ""]

\* the page as the script leaves it when it has run, in version v with
\* the cookies j
Start(v, j) ==
  /\ variant = v
  /\ page = "live"
  /\ ev = NoEvent
  /\ requests = <<>>
  /\ prompts = <<>>
  /\ resp = NoResponse
  /\ location = START_LOCATION
  /\ frame_src = "content/1"
  /\ reloads = 0
  /\ jar = j
  /\ content_font_size = IF v = "cookie" THEN InitialFontSize(j) ELSE Num(DEFAULT_FONT_SIZE)
  /\ base = content_font_size
  /\ frame_style_root = 0
  /\ style = Null
  /\ fontKeys = <<>>
  /\ links = <<>>
  /\ doc = <<>>
  /\ window_loaded = FALSE
  /\ loads = 0
  /\ now = 0
  /\ timers = <<>>
  /\ success_logs = 0
  /\ host_links = HOST_LINKS

Init == \E v \in Variants : \E j \in (IF v = "cookie" THEN Jars ELSE {<<>>}) : Start(v, j)

\* the same without cookies
InitPlain == \E v \in Variants : Start(v, <<>>)

(* ------------------------------ handlers ------------------------------- *)
\* what a handler leaves behind goes to the state
Commit(s, e) ==
  /\ Len(s.requests) <= MaxRequests
  /\ ev' = [e EXCEPT !.pd = s.pd, !.thrown = s.thrown]
  /\ requests' = s.requests
  /\ prompts' = s.prompts
  /\ content_font_size' = s.size
  /\ jar' = s.jar
  /\ style' = s.style
  /\ fontKeys' = s.fontKeys

\* One keydown event, dispatched at target, through every listener on its
\* path.  answers are the user's answers to the confirm() of each listener.
KeyDown(key, target, prevented, answers) ==
  /\ page = "live"
  /\ ev.n < MaxEvents
  /\ LET e == Event(ev.n + 1, key, target, prevented)
     IN  Commit(Dispatch(variant, Work, e, Listeners(variant, target), answers), e)
  /\ UNCHANGED <<variant, host_links, success_logs,
                 page, resp, location, frame_src, reloads,
                 frame_style_root, base, links, doc, window_loaded, loads,
                 now, timers>>

\* the functions reader.xml calls from its buttons
Buttons(v) ==
  CASE v = "full" -> {"navigate_to_page", "previous_page_button",
                      "next_page_button", "quit_button"}
    [] v = "api" -> {"navigate_to_page"}
    [] OTHER -> {}

OnClick(s, e, input, answer) ==
  CASE e.key = "navigate_to_page" -> api_page(s, e, "button", input, "href_origin")
    [] e.key = "previous_page_button" -> api_page(s, e, "button", "-", "href")
    [] e.key = "next_page_button" -> api_page(s, e, "button", "+", "href")
    [] e.key = "quit_button" -> quit(s, e, "button", answer)

Click(button, input, answer) ==
  /\ page = "live"
  /\ ev.n < MaxEvents
  /\ button \in Buttons(variant)
  /\ LET e == Event(ev.n + 1, button, "button", FALSE)
     IN  Commit(OnClick(Work, e, input, answer), e)
  /\ UNCHANGED <<variant, host_links, success_logs,
                 page, resp, location, frame_src, reloads,
                 frame_style_root, base, links, doc, window_loaded, loads,
                 now, timers>>

\* the href without the "/" in front of the page
HrefNoSlash(then, text) ==
  IF then = "href_origin" THEN ORIGIN \o text ELSE text

\* the value assigned to location.href: "/" + text, and for
\* navigate_to_page location.origin + "/" + text
Href(then, text) ==
  IF then = "href_origin" THEN ORIGIN \o "/" \o text ELSE "/" \o text

\* a continuation that drops the response of a request that is no longer
\* the newest one
RunsNewestOnly(i, outcome) == outcome # "reject" /\ i = Len(requests)

\* a continuation that stops at a status that is not a success
RunsIfOk(i, outcome) == outcome = "ok"

\* Does the code after the await of request i run?  fetch resolves with
\* any HTTP status and rejects on a transport failure, which throws at the
\* await; no continuation looks at response.ok except to log.
Runs(i, outcome) == outcome # "reject"

\* if (response.ok) console.log(...) in api_font_size, api_invert_text_color
\* and api_content_width, the three functions whose caller reloads
Logs(then, outcome) == then = "reload" /\ outcome = "ok"

\* The fetch of request i settles and the continuation runs: the code
\* after the await, or the then callbacks.  A fetch that rejects throws at
\* the await and the rest never runs; response.ok only gates a console.log.
Arrive(i, outcome, text) ==
  /\ page = "live"
  /\ i \in 1..Len(requests)
  /\ requests[i].st = "pending"
  /\ text \in (IF outcome # "reject" /\ requests[i].then \in {"href", "href_origin", "src"}
               THEN Bodies ELSE {""})
  /\ requests' = [requests EXCEPT ![i].st = outcome, ![i].text = text]
  /\ resp' = [req |-> i, outcome |-> outcome, text |-> text]
  /\ LET then == requests[i].then
         run == Runs(i, outcome)
     IN  /\ location' = IF run /\ then \in {"href", "href_origin"}
                        THEN Href(then, text) ELSE location
         /\ frame_src' = IF run /\ then = "src" THEN text ELSE frame_src
         /\ reloads' = IF run /\ then = "reload" THEN reloads + 1 ELSE reloads
         /\ page' = IF run /\ then = "close" THEN "closed" ELSE page
  /\ success_logs' = IF Logs(requests[i].then, outcome)
                     THEN success_logs + 1 ELSE success_logs
  /\ UNCHANGED <<variant, host_links, ev, prompts, content_font_size, jar,
                 frame_style_root, style, base, fontKeys, links, doc,
                 window_loaded, loads, now, timers>>

\* the navigation that location.href or location.reload() started replaces
\* the page: its script and whatever it awaited are gone
Unload ==
  /\ page = "live"
  /\ location # START_LOCATION \/ reloads > 0
  /\ page' = "unloaded"
  /\ UNCHANGED <<variant, host_links, success_logs,
                 ev, requests, prompts, resp, location, frame_src,
                 reloads, content_font_size, jar, frame_style_root, style,
                 base, fontKeys, links, doc, window_loaded, loads, now,
                 timers>>

(* ----------------------------- frame load ------------------------------ *)
\* link.href of the links a frame document may hold: with the marker once
\* (the example of the specification), twice, inside another occurrence,
\* not at all, and as the host name
HREF_ONE ==
  <<"h", "t", "t", "p", ":", "/", "/", "h", "o", "s", "t", "/", "c", "o", "n", "t", "e", "n", "t", "/", "c", "h", "a", "p", "t", "e", "r", "1", ".", "h", "t", "m", "l">>
HREF_TWICE ==
  <<"h", "t", "t", "p", ":", "/", "/", "h", "o", "s", "t", "/", "c", "o", "n", "t", "e", "n", "t", "/", "c", "o", "n", "t", "e", "n", "t", "/", "a">>
HREF_APART ==
  <<"h", "t", "t", "p", ":", "/", "/", "h", "o", "s", "t", "/", "c", "o", "n", "t", "e", "n", "t", "/", "a", "#", "c", "o", "n", "t", "e", "n", "t", "/", "b">>
HREF_NESTED ==
  <<"h", "t", "t", "p", ":", "/", "/", "h", "o", "s", "t", "/", "c", "o", "n", "c", "o", "n", "t", "e", "n", "t", "/", "t", "e", "n", "t", "/", "a">>
HREF_NONE ==
  <<"h", "t", "t", "p", ":", "/", "/", "h", "o", "s", "t", "/", "2">>
HREF_CASE ==
  <<"h", "t", "t", "p", ":", "/", "/", "h", "o", "s", "t", "/", "C", "o", "n", "t", "e", "n", "t", "/", "a">>
HREF_SHORT ==
  <<"h", "t", "t", "p", ":", "/", "/", "h", "o", "s", "t", "/", "c", "o", "n", "t", "e", "n", "t">>
HREF_HOST ==
  <<"h", "t", "t", "p", ":", "/", "/", "c", "o", "n", "t", "e", "n", "t", "/", "a">>
Hrefs ==
  {HREF_ONE, HREF_TWICE, HREF_APART, HREF_NESTED, HREF_NONE, HREF_CASE,
   HREF_SHORT, HREF_HOST}
LinkTargets == {"", "_blank"}
Links == [href : Hrefs, target : LinkTargets]
\* documents with a content link beside another link, in both orders
MixedDocs ==
  LET content == [href |-> HREF_ONE, target |-> ""]
      others == {[href |-> HREF_NONE, target |-> "_blank"],
                 [href |-> HREF_CASE, target |-> ""]}
  IN  {<<content, o>> : o \in others} \cup {<<o, content>> : o \in others}
Docs == UNION {[1..n -> Links] : n \in 0..MaxLinks} \cup MixedDocs
EmptyDoc == <<>>

\* the body of the loop without its if
CorrectLinkUnconditional(link) ==
  [href |-> ReplaceFirst(link.href, MARKER, <<>>), target |-> TOP]

\* the body of the loop over frame.contentDocument.links
CorrectLink(link) ==
  IF Includes(link.href, MARKER)
  THEN [href |-> ReplaceFirst(link.href, MARKER, <<>>), target |-> TOP]
  ELSE link

CorrectLinks(d) == [k \in 1..Len(d) |-> CorrectLink(d[k])]

\* The frame has loaded the document d.  index.js has no load listener;
\* src/src/reader.js takes the root element of the new document (whose
\* style holds no font size yet) and corrects the links; part_000 corrects
\* the links; reader/src/reader.js also starts one more interval timer.
FrameLoad(d) ==
  /\ page = "live"
  /\ loads < MaxFrameLoads
  /\ loads' = loads + 1
  /\ doc' = d
  /\ links' = IF variant = "index" THEN d ELSE CorrectLinks(d)
  /\ frame_style_root' = IF variant = "cookie" THEN loads + 1 ELSE frame_style_root
  /\ style' = Null
  /\ timers' = IF variant = "full" THEN Append(timers, now + KEEPALIVE_PERIOD)
               ELSE timers
  /\ UNCHANGED <<variant, host_links, success_logs,
                 page, ev, requests, prompts, resp, location,
                 frame_src, reloads, content_font_size, jar, base, fontKeys,
                 window_loaded, now>>

\* the load event of the window: src/src/reader.js reads the cookie again
WindowLoad ==
  /\ page = "live"
  /\ ~window_loaded
  /\ window_loaded' = TRUE
  /\ LET cookie_content_font_size == FontSizeCookie(jar)
     IN  content_font_size' =
           IF variant = "cookie" /\ Truthy(cookie_content_font_size)
           THEN parseInt(cookie_content_font_size.s) ELSE content_font_size
  /\ UNCHANGED <<variant, host_links, success_logs,
                 page, ev, requests, prompts, resp, location,
                 frame_src, reloads, jar, frame_style_root, style, base,
                 fontKeys, links, doc, loads, now, timers>>

(* ------------------------------- timers -------------------------------- *)
TickMs == KEEPALIVE_PERIOD \div TicksPerPeriod

\* Time passes.  now is the clock read in steps of TickMs: what happens
\* within one step carries the same reading.  A timer that is due fires
\* before the clock moves on.
Tick ==
  /\ page = "live"
  /\ now < MaxPeriods * KEEPALIVE_PERIOD
  /\ \A k \in 1..Len(timers) : timers[k] > now
  /\ now' = now + TickMs
  /\ UNCHANGED <<variant, host_links, success_logs,
                 page, ev, requests, prompts, resp, location,
                 frame_src, reloads, content_font_size, jar, frame_style_root,
                 style, base, fontKeys, links, doc, window_loaded, loads,
                 timers>>

TimerEvent == [key |-> "keepalive", n |-> 0]

\* the callback of setInterval: api_keepalive(), then the timer is due
\* again one period later
TimerFire(k) ==
  /\ page = "live"
  /\ k \in 1..Len(timers)
  /\ timers[k] <= now
  /\ Len(requests) < MaxRequests
  /\ requests' = api_keepalive(Work, TimerEvent, "timer").requests
  /\ timers' = [timers EXCEPT ![k] = @ + KEEPALIVE_PERIOD]
  /\ UNCHANGED <<variant, host_links, success_logs,
                 page, ev, prompts, resp, location, frame_src,
                 reloads, content_font_size, jar, frame_style_root, style,
                 base, fontKeys, links, doc, window_loaded, loads, now>>

(* --------------------------- specifications --------------------------- *)
Answers == {<<a, b>> : a, b \in BOOLEAN}
AnswersFor(key, prevented) ==
  IF key = "q" /\ variant = "full" /\ ~prevented THEN Answers
  ELSE {<<FALSE, FALSE>>}

\* Spec: the handlers themselves.  Any key, dispatched at the window or at
\* the frame, handled or not by an earlier listener; any button.
KeyDownAny ==
  \E key \in Keys, target \in Targets, prevented \in BOOLEAN :
    \E answers \in AnswersFor(key, prevented) :
      KeyDown(key, target, prevented, answers)

ClickAny ==
  \E button \in Buttons(variant), input \in PageInputs, answer \in BOOLEAN :
    Click(button, input, answer)

Next == KeyDownAny \/ ClickAny

Spec == Init /\ [][Next]_vars

\* NavSpec: page navigation.  The arrow keys and the page buttons, with
\* the requests settling in any order and the page unloading at any time
\* after a navigation has started.
NavKeys == {"ArrowLeft", "ArrowRight"}
NavButtons == {"navigate_to_page", "previous_page_button", "next_page_button"}

KeyDownNav ==
  \E key \in NavKeys, target \in Targets :
    KeyDown(key, target, FALSE, <<FALSE, FALSE>>)

ClickNav ==
  \E button \in NavButtons, input \in PageInputs : Click(button, input, FALSE)

ArriveAny ==
  \E i \in 1..Len(requests), outcome \in Outcomes, text \in Bodies \cup {""} :
    Arrive(i, outcome, text)

NavNext == KeyDownNav \/ ClickNav \/ ArriveAny \/ Unload

NavSpec == InitPlain /\ [][NavNext]_vars

\* LinkSpec: the frame loads documents with any links.
LoadAny == \E d \in Docs : FrameLoad(d)

LinkNext == LoadAny

LinkSpec == InitPlain /\ [][LinkNext]_vars

\* FontSpec: the font size of src/src/reader.js.  The keys "=" and "-",
\* before and after the frame and the window have loaded.
InitCookie == \E j \in Jars : Start("cookie", j)

FontKeys == {"=", "-"}

KeyDownFont ==
  \E key \in FontKeys, prevented \in BOOLEAN :
    KeyDown(key, "window", prevented, <<FALSE, FALSE>>)

LoadEmpty == FrameLoad(EmptyDoc)

FontNext == KeyDownFont \/ LoadEmpty \/ WindowLoad

FontSpec == InitCookie /\ [][FontNext]_vars

\* KeepaliveSpec: reader/src/reader.js with the clock running.
InitFull == Start("full", <<>>)

TimerFireAny == \E k \in 1..Len(timers) : TimerFire(k)

KeepaliveNext == LoadEmpty \/ Tick \/ TimerFireAny \/ ArriveAny

KeepaliveSpec == InitFull /\ [][KeepaliveNext]_vars

\* QuitSpec: reader/src/reader.js with the key "q" and the quit button,
\* beside a navigation key and a preference key.
QuitKeys == {"q", "ArrowLeft", "="}

KeyDownQuit ==
  \E key \in QuitKeys, target \in Targets :
    \E answers \in AnswersFor(key, FALSE) : KeyDown(key, target, FALSE, answers)

ClickQuit == \E answer \in BOOLEAN : Click("quit_button", "", answer)

QuitNext == KeyDownQuit \/ ClickQuit \/ ArriveAny \/ Unload

QuitSpec == InitFull /\ [][QuitNext]_vars

\* every fetch settles, as long as the page is there to see it
Settles(i) == \E outcome \in Outcomes, text \in Bodies \cup {""} : Arrive(i, outcome, text)

LiveSpec == QuitSpec /\ \A i \in 1..MaxRequests : WF_vars(Settles(i))

\* PrefSpec: the preference keys of the versions with the keybind table,
\* dispatched at the window or at the frame, with the responses arriving.
PrefKeys == {"=", "-", "!", "[", "]"}

InitPref == \E v \in {"api", "full"} : Start(v, <<>>)

KeyDownPref ==
  \E key \in PrefKeys, target \in Targets :
    KeyDown(key, target, FALSE, <<FALSE, FALSE>>)

PrefNext == KeyDownPref \/ ArriveAny \/ Unload

PrefSpec == InitPref /\ [][PrefNext]_vars

\* MixSpec: reader/src/reader.js with navigation, a preference change and
\* the keepalive timer side by side, on a page whose frame loads once, when
\* the page opens, up to the first keepalive and its response.
MixKeys == {"ArrowRight", "!"}

KeyDownMix == \E key \in MixKeys : KeyDown(key, "window", FALSE, <<FALSE, FALSE>>)

ClickMix == Click("next_page_button", "", FALSE)

LoadAtStart == now = 0 /\ loads = 0 /\ LoadEmpty

ArriveMix ==
  \E i \in 1..Len(requests), outcome \in Outcomes, text \in {"42", ""} :
    Arrive(i, outcome, text)

\* the clock runs until the timer is due for the first time
TickToFirstKeepalive == now < KEEPALIVE_PERIOD /\ Tick

MixNext ==
  \/ KeyDownMix
  \/ ClickMix
  \/ LoadAtStart
  \/ TickToFirstKeepalive
  \/ TimerFireAny
  \/ ArriveMix
  \/ Unload

MixSpec == InitFull /\ [][MixNext]_vars

(* ------------------------------- claims -------------------------------- *)
\* the keys each version binds
BoundKeys(v) ==
  CASE v = "index" -> {"ArrowLeft", "ArrowRight"}
    [] v = "cookie" -> {"ArrowLeft", "ArrowRight", "=", "-"}
    [] v = "api" -> TableKeys \ {"q"}
    [] v = "full" -> TableKeys

\* the request the keybind table documents for a key
Documented(key) ==
  CASE key = "ArrowLeft" -> [url |-> "/api/page", body |-> "-"]
    [] key = "ArrowRight" -> [url |-> "/api/page", body |-> "+"]
    [] key = "=" -> [url |-> "/api/font-size", body |-> "+"]
    [] key = "-" -> [url |-> "/api/font-size", body |-> "-"]
    [] key = "!" -> [url |-> "/api/invert-text-color", body |-> ""]
    [] key = "[" -> [url |-> "/api/content-width", body |-> "-"]
    [] key = "]" -> [url |-> "/api/content-width", body |-> "+"]
    [] key = "q" -> [url |-> "/api/quit", body |-> ""]

\* the requests and the prompts the last event made
Mine == SubSeq(requests, ev.from + 1, Len(requests))
Asked == SubSeq(prompts, ev.asked + 1, Len(prompts))

\* C1, as claimed: in the versions with the keybind table, a keydown event
\* of a bound key that is not marked handled (for "q": with the prompt
\* confirmed) issues exactly one request, the documented one.
OneRequestPerKey ==
  (/\ variant \in {"api", "full"}
   /\ ev.n > 0
   /\ ev.target \in Targets
   /\ ev.key \in BoundKeys(variant)
   /\ ~ev.prevented
   /\ ev.key = "q" => \E k \in 1..Len(Asked) : Asked[k].answer)
  => /\ Len(Mine) = 1
     /\ Mine[1].url = Documented(ev.key).url
     /\ Mine[1].body = Documented(ev.key).body

\* C2: a keydown event of a key the running version does not bind issues
\* no request, shows no prompt, does not call preventDefault, and changes
\* neither location.href nor frame.src nor the page, and reloads nothing.
UnboundKeyDoesNothing ==
  [][(ev'.n = ev.n + 1 /\ ev'.target \in Targets
      /\ ev'.key \notin BoundKeys(variant))
     => /\ requests' = requests
        /\ prompts' = prompts
        /\ ~ev'.pd
        /\ location' = location
        /\ frame_src' = frame_src
        /\ reloads' = reloads
        /\ page' = page]_vars

\* C2 witness: an unbound key, not marked handled, was handled after an
\* earlier key had issued a request
UnboundKeyPressed ==
  /\ ev.n = 2
  /\ ev.key \in OtherKeys
  /\ ~ev.prevented
  /\ Len(requests) = 1

\* the navigation operations, and the requests they make
NavOps == NavKeys \cup NavButtons
IsNav(r) == r.op \in NavOps

\* the location a navigation operation is claimed to set for the page p
Expected(op, p) ==
  IF op = "navigate_to_page" THEN "http://host" \o "/" \o p ELSE "/" \o p

\* request i gets its response in this step
Answered(i) ==
  /\ i \in 1..Len(requests)
  /\ requests[i].st = "pending"
  /\ requests'[i].st \in {"ok", "status"}

\* C3, as claimed: whenever the request of a navigation operation is
\* answered with the body p, location.href is set to "/" + p, or to
\* origin + "/" + p for navigate_to_page.
NavigationSetsLocation ==
  [][\A i \in 1..Len(requests) :
       (Answered(i) /\ IsNav(requests[i]))
       => location' = Expected(requests[i].op, requests'[i].text)]_vars

\* C3, amended: that holds in src/src/reader.js, part_000 and
\* reader/src/reader.js; in src/src/index.js the arrow keys set frame.src
\* to p and leave location.href alone.
NavigationSetsLocationOrFrame ==
  [][\A i \in 1..Len(requests) :
       (Answered(i) /\ IsNav(requests[i]))
       => IF variant = "index"
          THEN frame_src' = requests'[i].text /\ location' = location
          ELSE /\ location' = Expected(requests[i].op, requests'[i].text)
               /\ frame_src' = frame_src]_vars

\* C3 witness: the page endpoint answered "42" and location.href is "/42";
\* another request, of navigate_to_page, was answered before
NavigatedTo42 ==
  /\ variant = "full"
  /\ Len(requests) = 2
  /\ requests[1].op = "navigate_to_page" /\ requests[1].st = "ok"
  /\ requests[2].op = "ArrowRight"
  /\ resp = [req |-> 2, outcome |-> "ok", text |-> "42"]
  /\ location = "/42"

\* C10: a navigation request stays outstanding until its own fetch settles,
\* whatever else is pressed meanwhile; every response that arrives sets
\* location.href (frame.src in index.js) to its own page; and nothing else
\* changes them: the response that arrives last decides the location.
LastResponseWins ==
  [][/\ \A i \in 1..Len(requests) :
          requests[i].st = "pending"
          => \/ requests'[i].st = "pending"
             \/ (resp'.req = i /\ requests'[i].st = resp'.outcome)
     /\ \A i \in 1..Len(requests) :
          (Answered(i) /\ IsNav(requests[i]))
          => (IF variant = "index" THEN frame_src' ELSE location')
             = (IF variant = "index" THEN resp'.text
                ELSE Expected(requests[i].op, resp'.text))
     /\ (\A i \in 1..Len(requests) : ~(Answered(i) /\ IsNav(requests[i])))
          => location' = location /\ frame_src' = frame_src]_vars

\* C10 witness: ArrowLeft was pressed before ArrowRight, both requests were
\* outstanding together, ArrowRight was answered first and ArrowLeft last,
\* with different pages: the location is the page of ArrowLeft
FirstKeyAnsweredLast ==
  /\ variant = "full"
  /\ Len(requests) = 2
  /\ requests[1].op = "ArrowLeft" /\ requests[1].st = "ok"
  /\ requests[2].op = "ArrowRight" /\ requests[2].st = "ok"
  /\ requests[1].text = "7" /\ requests[2].text = "42"
  /\ resp.req = 1
  /\ location = "/7"

\* the links the load listener has gone through
Corrected == variant # "index" /\ loads > 0

\* C4, as claimed: after the load handler, every link whose href held the
\* marker has an href without the marker and the target _top.
NoMarkerLeft ==
  Corrected
  => \A k \in 1..Len(doc) :
       Includes(doc[k].href, MARKER)
       => ~Includes(links[k].href, MARKER) /\ links[k].target = TOP

\* the places where m occurs in s
Occurrences(s, m) ==
  {i \in 1..(Len(s) - Len(m) + 1) : SubSeq(s, i, i + Len(m) - 1) = m}

\* t is s without its first occurrence of m
FirstOccurrenceCut(s, t, m) ==
  \E i \in Occurrences(s, m) :
    /\ \A j \in Occurrences(s, m) : i <= j
    /\ Len(t) = Len(s) - Len(m)
    /\ \A k \in 1..Len(t) : t[k] = IF k < i THEN s[k] ELSE s[k + Len(m)]

\* C4, amended: every link whose href held the marker has the target _top
\* and its href without the first occurrence of the marker, and no other
\* change; the marker is gone from an href that held it once and not
\* inside another occurrence, as in the example of the specification.
FirstMarkerCut ==
  Corrected
  => \A k \in 1..Len(doc) :
       Includes(doc[k].href, MARKER)
       => /\ links[k].target = TOP
          /\ FirstOccurrenceCut(doc[k].href, links[k].href, MARKER)
          /\ doc[k].href = HREF_ONE => ~Includes(links[k].href, MARKER)

\* C4 witness: a document with the marker twice in an href was loaded, and
\* the second occurrence is still there
SecondMarkerLeft ==
  /\ Corrected
  /\ \E k \in 1..Len(doc) :
       /\ doc[k].href = HREF_TWICE
       /\ Includes(links[k].href, MARKER)
       /\ links[k].target = TOP

\* the font size the content_font_size cookie holds now
Persisted == parseInt(FontSizeCookie(jar).s)

\* C5: in src/src/reader.js, after k presses of "=" and no press of "-",
\* from a baseline b that is a number, content_font_size and the cookie
\* hold b + 2k, with the frame loaded or not.
PlusTwoPerPress ==
  (/\ variant = "cookie"
   /\ ~base.nan
   /\ fontKeys # <<>>
   /\ \A k \in 1..Len(fontKeys) : fontKeys[k] = "=")
  => /\ content_font_size = Num(base.v + 2 * Len(fontKeys))
     /\ FontSizeCookie(jar).found
     /\ Persisted = Num(base.v + 2 * Len(fontKeys))

\* C5 witness: "=" twice from 16, before the frame has loaded: the cookie
\* holds 20 although set_font_size threw
TwoPressesFrom16 ==
  /\ variant = "cookie"
  /\ base = Num(16)
  /\ fontKeys = <<"=", "=">>
  /\ frame_style_root = 0 /\ ev.thrown
  /\ FontSizeCookie(jar) = Str(<<"2", "0">>)

\* C6: in src/src/reader.js, from the default size or a cookie size of at
\* least 1, content_font_size is never below 1, and neither is the size a
\* key press has written to the cookie.
NeverBelowOne ==
  (variant = "cookie" /\ ~base.nan /\ base.v >= 1)
  => /\ ~content_font_size.nan /\ content_font_size.v >= 1
     /\ fontKeys # <<>>
        => FontSizeCookie(jar).found /\ ~Persisted.nan /\ Persisted.v >= 1

\* C6 witness: "-" pressed at the odd size 3, which stays 3, and at 1
MinusAtTheFloor ==
  /\ variant = "cookie"
  /\ base \in {Num(3), Num(1)}
  /\ fontKeys = <<"-", "-">>
  /\ content_font_size = base
  /\ Persisted = base

\* the keepalive requests, by place in requests
Keepalives == {i \in 1..Len(requests) : requests[i].url = API.KEEPALIVE}

\* C7, as claimed: any two consecutive keepalive requests are one full
\* period apart, after any number of frame loads.
ConstantCadence ==
  \A i, j \in Keepalives :
    (i < j /\ \A k \in Keepalives : ~(i < k /\ k < j))
    => requests[j].at - requests[i].at = KEEPALIVE_PERIOD

\* the requests made for prompt k
RequestsOf(k) == {i \in 1..Len(requests) : requests[i].prompt = k}

\* C8: a declined prompt makes no request; a confirmed prompt makes exactly
\* one, POST /api/quit; there is no quit request without a confirmed
\* prompt; and the window is closed only when the quit request of a
\* confirmed prompt has been answered.
QuitNeedsConfirmation ==
  /\ \A k \in 1..Len(prompts) :
       IF prompts[k].answer
       THEN /\ Cardinality(RequestsOf(k)) = 1
            /\ \A i \in RequestsOf(k) :
                 requests[i].url = "/api/quit" /\ requests[i].body = ""
       ELSE RequestsOf(k) = {}
  /\ \A i \in 1..Len(requests) :
       requests[i].url = "/api/quit"
       => requests[i].prompt \in 1..Len(prompts)
          /\ prompts[requests[i].prompt].answer
  /\ page = "closed"
     => \E i \in 1..Len(requests) :
          /\ requests[i].url = "/api/quit"
          /\ requests[i].st \in {"ok", "status"}
          /\ requests[i].prompt \in 1..Len(prompts)
          /\ prompts[requests[i].prompt].answer

\* C8 witness: one prompt was declined, the next confirmed, its request
\* answered, and the window is closed
ClosedAfterConfirmedQuit ==
  /\ Len(prompts) = 2
  /\ ~prompts[1].answer /\ prompts[2].answer
  /\ Len(requests) = 1
  /\ requests[1].st = "ok"
  /\ page = "closed"

\* the quit requests
Quits == {i \in 1..Len(requests) : requests[i].url = API.QUIT}

\* C9, as claimed: once the quit requests of the confirmed prompts have all
\* settled, whatever the outcome, the window is closed.
ClosedWhateverTheOutcome ==
  (Quits # {} /\ \A i \in Quits : requests[i].st # "pending")
  => page = "closed"

\* C9, amended: a quit request that is outstanding leads to the window
\* closed, unless its fetch rejects or the page is unloaded before it
\* settles; any HTTP status closes.
ClosedUnlessRejected ==
  \A i \in 1..MaxRequests :
    (i \in Quits /\ requests[i].st = "pending")
    ~> (\/ page \in {"closed", "unloaded"}
        \/ (i \in Quits /\ requests[i].st = "reject"))

\* C9 witness: the quit request was answered with a status that is not a
\* success, and the window is closed
ClosedOnErrorStatus ==
  /\ resp.req \in Quits
  /\ resp.outcome = "status"
  /\ page = "closed"

\* request i fails in this step: the fetch rejects, or the server answers
\* with a status that is not a success
Fails(i) ==
  /\ i \in 1..Len(requests)
  /\ requests[i].st = "pending"
  /\ requests'[i].st \in {"status", "reject"}

\* C11, as claimed: when the page request of a navigation operation fails,
\* by a rejected fetch or by a status that is not a success, location.href
\* is not modified.
FailedNavigationKeepsLocation ==
  [][\A i \in 1..Len(requests) :
       (Fails(i) /\ IsNav(requests[i])) => location' = location]_vars

\* the requests of the preference keys
IsPref(r) == r.op \in PrefKeys

\* C12, as claimed: a reload happens only in the step in which the request
\* of a preference key press is answered, one reload at a time; at that
\* moment no request of that key press is outstanding, and that key press
\* has caused no reload before.
OneReloadAfterTheAnswer ==
  [][reloads' # reloads
     => /\ reloads' = reloads + 1
        /\ \E i \in 1..Len(requests) :
             /\ Answered(i)
             /\ IsPref(requests[i])
             /\ \A j \in 1..Len(requests) :
                  (j # i /\ requests[j].ev = requests[i].ev)
                  => requests[j].st = "reject"]_vars

\* the fetch of request i rejects in this step
Rejected(i) ==
  /\ i \in 1..Len(requests)
  /\ requests[i].st = "pending"
  /\ requests'[i].st = "reject"

\* C13, as claimed: when the request of a preference key settles, with a
\* success status, with another status or with a rejected fetch, the page
\* is reloaded.
ReloadWhateverTheOutcome ==
  [][\A i \in 1..Len(requests) :
       ((Answered(i) \/ Rejected(i)) /\ IsPref(requests[i]))
       => reloads' = reloads + 1]_vars

\* C13, amended: when the request of a preference key is answered, the page
\* is reloaded whatever the status, and the status decides only whether the
\* success line is logged; when the fetch rejects there is neither a
\* reload nor a log line.
ReloadUnlessRejected ==
  [][\A i \in 1..Len(requests) :
       IsPref(requests[i])
       => /\ Answered(i)
             => /\ reloads' = reloads + 1
                /\ success_logs' = success_logs
                                   + (IF requests'[i].st = "ok" THEN 1 ELSE 0)
          /\ Rejected(i)
             => /\ reloads' = reloads
                /\ success_logs' = success_logs]_vars

\* a preference request was answered with an error status: the page has
\* reloaded and nothing was logged
ReloadedOnErrorStatus ==
  /\ resp.req > 0
  /\ resp.outcome = "status"
  /\ IsPref(requests[resp.req])
  /\ reloads = 1
  /\ success_logs = 0

\* C14, as claimed: in the versions with the keybind table, one keydown
\* event dispatched at the frame does what the same event dispatched at
\* the host window does, once: the same requests and as many prompts.
FrameKeyActsOnce ==
  [][(variant \in {"api", "full"} /\ ev'.n = ev.n + 1 /\ ev'.target = "frame")
     => \E answers \in Answers :
          LET e == Event(ev'.n, ev'.key, "window", ev'.prevented)
              w == Dispatch(variant, Work, e, Listeners(variant, "window"), answers)
          IN  /\ requests' = w.requests
              /\ Len(prompts') = Len(w.prompts)]_vars

\* C15, as claimed: in src/src/reader.js, once a font key has been pressed,
\* after any page load, frame load and key presses in any order, the root
\* element of the frame carries the property --content-font-size and its
\* value is the value of the cookie, in px.
CookieIsAppliedSize ==
  (variant = "cookie" /\ fontKeys # <<>>)
  => /\ FontSizeCookie(jar).found
     /\ style = Str(FontSizeCookie(jar).s \o <<"p", "x">>)

\* C16: after the load handler, every link of the loaded document whose
\* href does not hold the marker has the href and the target it came with,
\* the document has the links it came with, and the links of the host
\* document are as they were.
OtherLinksUntouched ==
  /\ host_links = HOST_LINKS
  /\ Corrected
     => /\ Len(links) = Len(doc)
        /\ \A k \in 1..Len(doc) :
             ~Includes(doc[k].href, MARKER) => links[k] = doc[k]

\* a document with a content link and another link has loaded: the first
\* is corrected, the second is as it came
OtherLinkBesideContentLink ==
  /\ Corrected
  /\ Len(doc) = 2
  /\ doc[1].href = HREF_ONE
  /\ links[1].target = TOP
  /\ doc[2] = [href |-> HREF_NONE, target |-> "_blank"]
  /\ links[2] = doc[2]

\* the requests of the keepalive timer
IsKeepalive(r) == r.op = TimerEvent.key

\* C17: a navigation key or button never reloads, a preference key never
\* sets location.href, and a keepalive tick sends one POST /api/keepalive
\* and nothing else, and neither its tick nor its response, whatever it is,
\* sets location.href, reloads, or sends a request again.
EffectsByKind ==
  [][/\ \A i \in 1..Len(requests) :
          (Answered(i) \/ Rejected(i))
          => /\ IsNav(requests[i]) => reloads' = reloads
             /\ IsPref(requests[i]) => location' = location
             /\ IsKeepalive(requests[i])
                => /\ location' = location
                   /\ reloads' = reloads
                   /\ page' = page
                   /\ Len(requests') = Len(requests)
     /\ timers' # timers /\ loads' = loads
        => /\ location' = location
           /\ reloads' = reloads
           /\ Len(requests') = Len(requests) + 1
           /\ SubSeq(requests', 1, Len(requests)) = requests
           /\ requests'[Len(requests')].url = API.KEEPALIVE
     /\ ev' # ev
        => /\ location' = location
           /\ reloads' = reloads]_vars

\* a keepalive was answered with an error status and a preference key with
\* success: one reload, by the preference key, and the location as it was
KeepaliveBesidePreference ==
  \E i, j \in 1..Len(requests) :
    /\ IsKeepalive(requests[i])
    /\ requests[i].st = "status"
    /\ IsPref(requests[j])
    /\ requests[j].st = "ok"
    /\ reloads = 1
    /\ location = START_LOCATION

\* C18: in every version, a keydown event that is already marked handled
\* when it reaches the listeners, of any key, makes no request and no
\* prompt, and changes neither location.href, frame.src, the page, the
\* reload count, content_font_size, the cookie nor the style of the frame.
HandledKeyDoesNothing ==
  [][(ev'.n = ev.n + 1 /\ ev'.target \in Targets /\ ev'.prevented)
     => /\ requests' = requests
        /\ prompts' = prompts
        /\ location' = location
        /\ frame_src' = frame_src
        /\ reloads' = reloads
        /\ page' = page
        /\ content_font_size' = content_font_size
        /\ jar' = jar
        /\ style' = style]_vars

\* reader/src/reader.js: after a key that made its request, a handled "="
\* dispatched at the frame has passed both listeners and made none
HandledBoundKeyAtFrame ==
  /\ variant = "full"
  /\ ev.n = 2
  /\ ev.prevented
  /\ ev.key = "="
  /\ ev.target = "frame"
  /\ ev.from = 1
  /\ Len(requests) = 1

====
